---- MODULE Spec2Model ----
(***************************************************************************)
(* Loan-comparison calculator (src/src/main.rs): the Decimal arithmetic    *)
(* the program computes with, LoanCalculator's pure functions, and main's  *)
(* interactive run as a state machine.                                     *)
(*                                                                         *)
(* rust_decimal::Decimal is a 96-bit integer with a decimal scale of at    *)
(* most 28 places: results are rounded to the places that fit and an       *)
(* operation whose result exceeds the range panics.  TLC's integers are    *)
(* 32 bits wide, so the type is kept with its behaviour and a narrower     *)
(* width: a Decimal is an integer count of units of 1/One, at most DecMax  *)
(* in magnitude; products and quotients round half-to-even to the unit; a  *)
(* result out of range is NaD, the panic of the operator that computed it. *)
(***************************************************************************)
EXTENDS Integers, Sequences, FiniteSets

(* ------------------------------ Decimal ------------------------------- *)

\* dec!(1): the number of units in 1.  The library's unit is 10^-28.
One == 100

\* The largest magnitude a Decimal holds (the library's is 2^96 - 1 units).
DecMax == 2^30 - 1

\* "Not a Decimal": the operation panicked (overflow, division by zero,
\* unwrap of None).  Every operator passes it on: a panic ends the run.
NaD == DecMax + 1

Abs(x) == IF x < 0 THEN -x ELSE x

Sgn(x) == IF x < 0 THEN -1 ELSE 1

\* Decimal::from(u32)
DecFromInt(n) == IF n > DecMax \div One THEN NaD ELSE n * One

\* Decimal + Decimal: exact, panics when out of range.
DecAdd(a, b) ==
    IF a = NaD \/ b = NaD THEN NaD
    ELSE IF Abs(a + b) > DecMax THEN NaD ELSE a + b

\* Decimal - Decimal
DecSub(a, b) ==
    IF a = NaD \/ b = NaD THEN NaD
    ELSE IF Abs(a - b) > DecMax THEN NaD ELSE a - b

\* v (>= 0) when it is in range, the panic otherwise.
InRange(v) == IF v > DecMax THEN NaD ELSE v

Signed(sign, v) == IF v = NaD THEN NaD ELSE sign * v

\* q rounded half-to-even on the remainder r of a division by b.
RoundHalfEven(q, r, b) ==
    IF 2 * r > b \/ (2 * r = b /\ q % 2 = 1) THEN q + 1 ELSE q

\* (xh*One + xl) * (yh*One + yl) / One, taken in halves so that no
\* intermediate leaves 32 bits.
MulParts(xh, xl, yh, yl) ==
    IF xh > 0 /\ yh > (DecMax \div One) \div xh THEN NaD
    ELSE IF xh * yh * One + xh * yl > DecMax THEN NaD
    ELSE InRange(RoundHalfEven(
             xh * yh * One + xh * yl + xl * yh + (xl * yl) \div One,
             (xl * yl) % One, One))

\* Decimal * Decimal: the exact product rounded half-to-even to the unit;
\* "Multiplication overflowed" when it exceeds the range.
DecMul(a, b) ==
    IF a = NaD \/ b = NaD THEN NaD
    ELSE Signed(Sgn(a) * Sgn(b),
                MulParts(Abs(a) \div One, Abs(a) % One,
                         Abs(b) \div One, Abs(b) % One))

\* <<(r*m) \div b, (r*m) % b>> for 0 <= r < b, by m additions modulo b, so
\* that r*m is never formed.
RECURSIVE TimesDivMod(_, _, _, _, _)
TimesDivMod(r, m, b, q, acc) ==
    IF m = 0 THEN <<q, acc>>
    ELSE IF acc + r >= b THEN TimesDivMod(r, m - 1, b, q + 1, acc + r - b)
         ELSE TimesDivMod(r, m - 1, b, q, acc + r)

\* <<(r*One) \div b, (r*One) % b>> for 0 <= r < b
FracDivMod(r, b) ==
    IF r <= DecMax \div One THEN <<(r * One) \div b, (r * One) % b>>
    ELSE TimesDivMod(r, One, b, 0, 0)

DivParts(q0, fr, b) ==
    IF q0 > DecMax \div One THEN NaD
    ELSE InRange(RoundHalfEven(q0 * One + fr[1], fr[2], b))

\* a/b in units, for a >= 0 and b > 0: (a*One)/b rounded half-to-even, NaD
\* when it exceeds the range.
ScaledDiv(a, b) == DivParts(a \div b, FracDivMod(a % b, b), b)

\* Decimal / Decimal: rounded to the unit; "Division by zero" panics.
DecDiv(a, b) ==
    IF a = NaD \/ b = NaD \/ b = 0 THEN NaD
    ELSE Signed(Sgn(a) * Sgn(b), ScaledDiv(Abs(a), Abs(b)))

(* -------------------------------- f64 --------------------------------- *)

\* An f64 the user typed or the config holds: the ratio n/d with d > 0, or
\* NaN (d = 0), which str::parse::<f64> accepts ("NaN").
F64(n, d) == [n |-> n, d |-> d]

NaN == F64(0, 0)

IsNaN(x) == x.d = 0

\* x <= 0.0, x > 0.0, x > k, x < k for an integer-valued k: every
\* comparison with NaN is false.
F64LeZero(x) == ~IsNaN(x) /\ x.n <= 0

F64GtZero(x) == ~IsNaN(x) /\ x.n > 0

F64Gt(x, k) ==
    ~IsNaN(x) /\ (x.n \div x.d > k \/ (x.n \div x.d = k /\ x.n % x.d > 0))

F64Lt(x, k) == ~IsNaN(x) /\ x.n \div x.d < k

\* Decimal::from_f64(x).unwrap(): the nearest Decimal; a value below half a
\* unit rounds to zero; None (NaN, out of range) panics in unwrap.
FromF64(x) ==
    IF IsNaN(x) THEN NaD ELSE Signed(Sgn(x.n), ScaledDiv(Abs(x.n), x.d))

(* ------------------------------ LoanType ------------------------------ *)

LoanTypes == <<"Home", "Car", "Personal">>

\* LoanType::get_max_amount, in dollars
get_max_amount(loan_type) ==
    CASE loan_type = "Home" -> 10000000
      [] loan_type = "Car" -> 150000
      [] loan_type = "Personal" -> 100000

(* -------------------------------- Bank -------------------------------- *)

\* RateRange::to_decimal_tuple
to_decimal_tuple(range) == <<FromF64(range.min), FromF64(range.max)>>

\* impl From<BankConfig> for Bank
BankFrom(c) ==
    [name                |-> c.name,
     home_loan_range     |-> to_decimal_tuple(c.home_loan_range),
     car_loan_range      |-> to_decimal_tuple(c.car_loan_range),
     personal_loan_range |-> to_decimal_tuple(c.personal_loan_range),
     min_credit_score    |-> c.min_credit_score]

\* Bank::get_rate_range
get_rate_range(bank, loan_type) ==
    CASE loan_type = "Home" -> bank.home_loan_range
      [] loan_type = "Car" -> bank.car_loan_range
      [] loan_type = "Personal" -> bank.personal_loan_range

(* --------------------------- LoanCalculator --------------------------- *)

\* One turn of decimal_pow's while loop on <<result, base, exp>>: multiply
\* the accumulator when the low bit is set, then square the base (on every
\* turn, the last one included) and halve the exponent.
pow_turn(st) ==
    <<IF st[3] % 2 = 1 THEN DecMul(st[1], st[2]) ELSE st[1],
      DecMul(st[2], st[2]),
      st[3] \div 2>>

\* The loop from <<result, base, exp>> to its exit; a panicking
\* multiplication ends it with NaD.
RECURSIVE pow_loop(_)
pow_loop(st) ==
    IF st[1] = NaD \/ st[2] = NaD THEN NaD
    ELSE IF st[3] = 0 THEN st[1]
    ELSE pow_loop(pow_turn(st))

\* LoanCalculator::decimal_pow
decimal_pow(base, exp) == pow_loop(<<One, base, exp>>)

\* monthly_rate = annual_rate / dec!(100) / dec!(12)
monthly_rate_of(annual_rate) ==
    DecDiv(DecDiv(annual_rate, DecFromInt(100)), DecFromInt(12))

\* calculate_monthly_payment from base_raised on: the straight-line branch
\* when base_raised == 1, the standard formula otherwise.
payment_from(principal, monthly_rate, num_payments, base_raised) ==
    IF base_raised = NaD THEN NaD
    ELSE IF base_raised = One
    THEN DecDiv(principal, DecFromInt(num_payments))
    ELSE DecMul(principal,
                DecDiv(DecMul(monthly_rate, base_raised),
                       DecSub(base_raised, One)))

\* base_raised = decimal_pow(dec!(1) + monthly_rate, num_payments)
base_raised_of(monthly_rate, num_payments) ==
    decimal_pow(DecAdd(One, monthly_rate), num_payments)

payment_at(principal, monthly_rate, num_payments) ==
    payment_from(principal, monthly_rate, num_payments,
                 base_raised_of(monthly_rate, num_payments))

\* LoanCalculator::calculate_monthly_payment
calculate_monthly_payment(principal, annual_rate, years) ==
    payment_at(principal, monthly_rate_of(annual_rate), years * 12)

\* adjust_rate_for_credit with every guard written `>` for `>=`.
adjust_rate_exclusive(base_rate, credit_score) ==
    IF credit_score > 800 THEN DecSub(base_rate, One \div 2)
    ELSE IF credit_score > 750 THEN DecSub(base_rate, One \div 4)
    ELSE IF credit_score > 700 THEN base_rate
    ELSE IF credit_score > 650 THEN DecAdd(base_rate, One \div 2)
    ELSE IF credit_score > 600 THEN DecAdd(base_rate, One)
    ELSE DecAdd(base_rate, 2 * One)

\* LoanCalculator::adjust_rate_for_credit: first matching arm, top down.
adjust_rate_for_credit(base_rate, credit_score) ==
    IF credit_score >= 800 THEN DecSub(base_rate, One \div 2)
    ELSE IF credit_score >= 750 THEN DecSub(base_rate, One \div 4)
    ELSE IF credit_score >= 700 THEN base_rate
    ELSE IF credit_score >= 650 THEN DecAdd(base_rate, One \div 2)
    ELSE IF credit_score >= 600 THEN DecAdd(base_rate, One)
    ELSE DecAdd(base_rate, 2 * One)

Min2(a, b) == IF a <= b THEN a ELSE b

RECURSIVE SeqMin(_)
SeqMin(s) == IF Len(s) = 1 THEN s[1] ELSE Min2(s[1], SeqMin(Tail(s)))

Max2(a, b) == IF a >= b THEN a ELSE b

RECURSIVE SeqMax(_)
SeqMax(s) == IF Len(s) = 1 THEN s[1] ELSE Max2(s[1], SeqMax(Tail(s)))

\* get_min_credit_score with max() written for min().
get_max_credit_score(bs) ==
    IF bs = <<>> THEN 300
    ELSE SeqMax([i \in 1..Len(bs) |-> bs[i].min_credit_score])

\* LoanCalculator::get_min_credit_score: min().unwrap_or(300)
get_min_credit_score(bs) ==
    IF bs = <<>> THEN 300
    ELSE SeqMin([i \in 1..Len(bs) |-> bs[i].min_credit_score])

(* --------------------------- input validation ------------------------- *)

\* get_valid_loan_amount's validator: the message it rejects with, "" for Ok.
validate_loan_amount(input, loan_type) ==
    IF F64LeZero(input) THEN "Loan amount must be greater than 0"
    ELSE IF F64Gt(input, get_max_amount(loan_type))
    THEN "Loan amount exceeds maximum allowed"
    ELSE ""

\* get_valid_loan_term's validator
validate_loan_term(input) ==
    IF input >= 1 /\ input <= 30 THEN ""
    ELSE "Loan term must be between 1 and 30 years"

\* The credit-score validator without its lower bound.
validate_credit_score_upper(input) ==
    IF input <= 850 THEN ""
    ELSE "Credit score must be between 300 and 850"

\* get_valid_credit_score's validator
validate_credit_score(input) ==
    IF input >= 300 /\ input <= 850 THEN ""
    ELSE "Credit score must be between 300 and 850"

\* main's validator of the custom rate
validate_custom_rate(input) ==
    IF F64GtZero(input) /\ F64Lt(input, 100) THEN ""
    ELSE "Interest rate must be between 0 and 100"

(* ------------------------- main's computations ------------------------ *)

\* The eligibility test with `<=` written for `<`.
Qualifies_above(bank, credit_score) == ~(credit_score <= bank.min_credit_score)

\* main's eligibility test: the bank is skipped when credit_score is below
\* its minimum.
Qualifies(bank, credit_score) == ~(credit_score < bank.min_credit_score)

\* base_rate: the midpoint of the bank's range for the loan type.
midpoint(range) == DecDiv(DecAdd(range[1], range[2]), DecFromInt(2))

base_rate_of(bank, loan_type) == midpoint(get_rate_range(bank, loan_type))

\* total_payment with the years taken for the number of payments.
total_payment_years(monthly_payment, loan_term) ==
    DecMul(monthly_payment, DecFromInt(loan_term))

\* total_payment = monthly_payment * Decimal::from(loan_term * 12)
total_payment_of(monthly_payment, loan_term) ==
    DecMul(monthly_payment, DecFromInt(loan_term * 12))

\* total_interest = total_payment - loan_amount
total_interest_of(total_payment, loan_amount) == DecSub(total_payment, loan_amount)

\* The row main adds (the values it formats), from the total on.
row_from(label, rate, monthly_payment, total_payment, loan_amount) ==
    [label           |-> label,
     rate            |-> rate,
     monthly_payment |-> monthly_payment,
     total_interest  |-> total_interest_of(total_payment, loan_amount),
     total_payment   |-> total_payment]

\* ... from the monthly payment on.
row_of_payment(label, rate, monthly_payment, loan_amount, loan_term) ==
    row_from(label, rate, monthly_payment,
             total_payment_of(monthly_payment, loan_term), loan_amount)

\* The row of a qualifying bank, from its adjusted rate on.
bank_row_at(label, adjusted_rate, loan_amount, loan_term) ==
    row_of_payment(label, adjusted_rate,
                   calculate_monthly_payment(loan_amount, adjusted_rate, loan_term),
                   loan_amount, loan_term)

\* The row main's loop adds for a qualifying bank.
BankRow(bank, loan_type, loan_amount, loan_term, credit_score) ==
    bank_row_at(bank.name,
                adjust_rate_for_credit(base_rate_of(bank, loan_type), credit_score),
                loan_amount, loan_term)

\* The label of the custom row.
CustomLabel == "Custom Rate"

\* The row main adds for the custom rate: the rate as entered.
CustomRow(rate, loan_amount, loan_term) ==
    row_of_payment(CustomLabel, rate,
                   calculate_monthly_payment(loan_amount, rate, loan_term),
                   loan_amount, loan_term)

\* A multiplication, division or subtraction panicked while the row was built.
RowPanics(row) ==
    \/ row.rate = NaD
    \/ row.monthly_payment = NaD
    \/ row.total_interest = NaD
    \/ row.total_payment = NaD

\* What main prints when no bank qualified.
NoticeOf(bs, credit_score) ==
    [shown |-> TRUE, score |-> credit_score, min |-> get_min_credit_score(bs)]

NoNotice == [shown |-> FALSE, score |-> 0, min |-> 0]

(* ------------------------------- inputs ------------------------------- *)

\* The longest lender list of a checked config.
MaxBanks == 2

Range(lo, hi, d) == [min |-> F64(lo, d), max |-> F64(hi, d)]

\* The BankConfig entries the checked banks.yaml files are made of.  Names
\* are free text and rates are not validated by the loader.
BankPool ==
    <<[name                |-> "First National",
       home_loan_range     |-> Range(5, 7, 1),
       car_loan_range      |-> Range(11, 13, 1),
       personal_loan_range |-> Range(23, 25, 1),
       min_credit_score    |-> 620],
      [name                |-> "Custom Rate",
       home_loan_range     |-> Range(0, 4, 10),
       car_loan_range      |-> Range(5, 7, 1),
       personal_loan_range |-> Range(11, 13, 1),
       min_credit_score    |-> 700],
      [name                |-> "Payday Plus",
       home_loan_range     |-> Range(11, 13, 1),
       car_loan_range      |-> Range(23, 25, 1),
       personal_loan_range |-> Range(390, 410, 1),
       min_credit_score    |-> 300]>>

BankLists ==
    UNION {[1..n -> {BankPool[i] : i \in 1..Len(BankPool)}] : n \in 0..MaxBanks}

\* banks.yaml as LoanCalculator::new finds it.
ConfigFiles ==
    {[status |-> "missing", banks |-> <<>>], [status |-> "malformed", banks |-> <<>>]}
        \cup {[status |-> "ok", banks |-> bs] : bs \in BankLists}

\* What the user types at the amount prompt: 0, -5, 1e-9, 1000, 100000,
\* 100000.01, 150000, 150000.01, 10000000.01, NaN.
AmountEntries ==
    {F64(0, 1), F64(-5, 1), F64(1, 1000000000), F64(1000, 1), F64(100000, 1),
     F64(10000001, 100), F64(150000, 1), F64(15000001, 100),
     F64(1000000001, 100), NaN}

TermEntries == {0, 1, 30, 31}

ScoreEntries == {299, 300, 619, 620, 699, 700, 800, 850, 851}

\* What the user types at the custom-rate prompt: 0, 1e-9, 12, 100, NaN.
CustomRateEntries == {F64(0, 1), F64(1, 1000000000), F64(12, 1), F64(100, 1), NaN}

(* -------------------------------- state ------------------------------- *)

VARIABLES
    pc,                   \* where main is: "start", a prompt, "loop", "exit"
    config,               \* banks.yaml
    banks,                \* calculator.banks
    loan_type,
    amount_entry,         \* the f64 the amount prompt returned
    loan_amount,
    loan_term,
    credit_score,
    idx,                  \* the bank the for loop is at
    has_qualifying_banks,
    table,                \* the rows added after the header row
    notice,               \* the "No banks available" lines, once printed
    custom_rate,
    message,              \* the validation error the prompt shows
    prompts,              \* the prompts shown so far
    printed,              \* table.printstd() ran
    exit_code,            \* -1 while running; 0 Ok; 1 Err; 101 panic
    failure,              \* why the run failed: "config", "io", "panic"
    call                  \* the pure function under check (its own specifications)

vars ==
    <<pc, config, banks, loan_type, amount_entry, loan_amount, loan_term,
      credit_score, idx, has_qualifying_banks, table, notice, custom_rate,
      message, prompts, printed, exit_code, failure, call>>

NoCall == [fn |-> "none"]

\* main's locals before main runs.
Idle ==
    /\ banks = <<>>
    /\ loan_type = "none"
    /\ amount_entry = F64(0, 1)
    /\ loan_amount = 0
    /\ loan_term = 0
    /\ credit_score = 0
    /\ idx = 0
    /\ has_qualifying_banks = FALSE
    /\ table = <<>>
    /\ notice = NoNotice
    /\ custom_rate = 0
    /\ message = ""
    /\ prompts = {}
    /\ printed = FALSE
    /\ exit_code = -1
    /\ failure = "none"

Init ==
    /\ pc = "start"
    /\ config \in ConfigFiles
    /\ Idle
    /\ call = NoCall

Prompts == {"select", "amount", "term", "score", "custom_choice", "custom_rate"}

\* main leaves with status `code`.
Exit(code, why) ==
    /\ pc' = "exit"
    /\ exit_code' = code
    /\ failure' = why

\* main reaches the prompt `p`.
Show(p) ==
    /\ pc' = p
    /\ prompts' = prompts \cup {p}

\* config.banks.into_iter().map(Bank::from).collect()
LoadedBanks(c) == [i \in 1..Len(c.banks) |-> BankFrom(c.banks[i])]

\* An unwrap in to_decimal_tuple panicked.
ConversionPanics(bs) ==
    \E i \in 1..Len(bs) : \E t \in 1..3 :
        NaD \in {get_rate_range(bs[i], LoanTypes[t])[1],
                 get_rate_range(bs[i], LoanTypes[t])[2]}

\* LoanCalculator::new()?: a missing or malformed banks.yaml returns Err
\* from main; otherwise the banks are converted and the first prompt shown.
LoadConfig ==
    /\ pc = "start"
    /\ IF config.status # "ok"
       THEN /\ Exit(1, "config")
            /\ UNCHANGED <<banks, prompts>>
       ELSE IF ConversionPanics(LoadedBanks(config))
       THEN /\ Exit(101, "panic")
            /\ UNCHANGED <<banks, prompts>>
       ELSE /\ banks' = LoadedBanks(config)
            /\ Show("select")
            /\ UNCHANGED <<exit_code, failure>>
    /\ UNCHANGED <<config, loan_type, amount_entry, loan_amount, loan_term,
                   credit_score, idx, has_qualifying_banks, table, notice,
                   custom_rate, message, printed, call>>

\* interact()? / interact_text()? returns Err at a prompt: main returns it.
PromptIoError ==
    /\ pc \in Prompts
    /\ Exit(1, "io")
    /\ UNCHANGED <<config, banks, loan_type, amount_entry, loan_amount,
                   loan_term, credit_score, idx, has_qualifying_banks, table,
                   notice, custom_rate, message, prompts, printed, call>>

\* The loan type is selected; the amount prompt follows.
SelectLoanType ==
    /\ pc = "select"
    /\ \E loan_type_selection \in 0..2 :
           loan_type' = LoanTypes[loan_type_selection + 1]
    /\ Show("amount")
    /\ UNCHANGED <<config, banks, amount_entry, loan_amount, loan_term,
                   credit_score, idx, has_qualifying_banks, table, notice,
                   custom_rate, message, printed, exit_code, failure, call>>

\* get_valid_loan_amount: a rejected entry shows its message and the prompt
\* stays; an accepted one is converted with Decimal::from_f64(..).unwrap().
EnterAmount ==
    /\ pc = "amount"
    /\ \E input \in AmountEntries :
           IF validate_loan_amount(input, loan_type) # ""
           THEN /\ message' = validate_loan_amount(input, loan_type)
                /\ UNCHANGED <<pc, prompts, amount_entry, loan_amount,
                               exit_code, failure>>
           ELSE /\ amount_entry' = input
                /\ message' = ""
                /\ IF FromF64(input) = NaD
                   THEN /\ Exit(101, "panic")
                        /\ UNCHANGED <<prompts, loan_amount>>
                   ELSE /\ loan_amount' = FromF64(input)
                        /\ Show("term")
                        /\ UNCHANGED <<exit_code, failure>>
    /\ UNCHANGED <<config, banks, loan_type, loan_term, credit_score, idx,
                   has_qualifying_banks, table, notice, custom_rate, printed,
                   call>>

\* get_valid_loan_term
EnterTerm ==
    /\ pc = "term"
    /\ \E input \in TermEntries :
           IF validate_loan_term(input) # ""
           THEN /\ message' = validate_loan_term(input)
                /\ UNCHANGED <<pc, prompts, loan_term>>
           ELSE /\ loan_term' = input
                /\ message' = ""
                /\ Show("score")
    /\ UNCHANGED <<config, banks, loan_type, amount_entry, loan_amount,
                   credit_score, idx, has_qualifying_banks, table, notice,
                   custom_rate, printed, exit_code, failure, call>>

\* get_valid_credit_score; then main creates the table and enters the loop.
EnterScore ==
    /\ pc = "score"
    /\ \E input \in ScoreEntries :
           IF validate_credit_score(input) # ""
           THEN /\ message' = validate_credit_score(input)
                /\ UNCHANGED <<pc, credit_score, idx>>
           ELSE /\ credit_score' = input
                /\ message' = ""
                /\ pc' = "loop"
                /\ idx' = 1
    /\ UNCHANGED <<config, banks, loan_type, amount_entry, loan_amount,
                   loan_term, has_qualifying_banks, table, notice, custom_rate,
                   prompts, printed, exit_code, failure, call>>

\* The loop body for `bank`, whose row (were it to qualify) is `row`.
LoopBody(bank, row) ==
    IF ~Qualifies(bank, credit_score)
    THEN /\ idx' = idx + 1
         /\ UNCHANGED <<pc, has_qualifying_banks, table, exit_code, failure>>
    ELSE IF RowPanics(row)
    THEN /\ has_qualifying_banks' = TRUE
         /\ Exit(101, "panic")
         /\ UNCHANGED <<idx, table>>
    ELSE /\ has_qualifying_banks' = TRUE
         /\ table' = Append(table, row)
         /\ idx' = idx + 1
         /\ UNCHANGED <<pc, exit_code, failure>>

\* One iteration of `for bank in &calculator.banks`.
LoopBank ==
    /\ pc = "loop"
    /\ idx <= Len(banks)
    /\ LoopBody(banks[idx],
                BankRow(banks[idx], loan_type, loan_amount, loan_term, credit_score))
    /\ UNCHANGED <<config, banks, loan_type, amount_entry, loan_amount,
                   loan_term, credit_score, notice, custom_rate, message,
                   prompts, printed, call>>

\* The loop is over: the notice when no bank qualified, then the
\* custom-rate choice.
LoopEnd ==
    /\ pc = "loop"
    /\ idx > Len(banks)
    /\ notice' = IF ~has_qualifying_banks THEN NoticeOf(banks, credit_score)
                 ELSE notice
    /\ Show("custom_choice")
    /\ UNCHANGED <<config, banks, loan_type, amount_entry, loan_amount,
                   loan_term, credit_score, idx, has_qualifying_banks, table,
                   custom_rate, message, printed, exit_code, failure, call>>

\* "Yes" (0) asks for the rate; "No" (1) prints the table and returns Ok.
ChooseCustom ==
    /\ pc = "custom_choice"
    /\ \E custom_rate_selection \in 0..1 :
           IF custom_rate_selection = 0
           THEN /\ Show("custom_rate")
                /\ UNCHANGED <<printed, exit_code, failure>>
           ELSE /\ printed' = TRUE
                /\ Exit(0, "none")
                /\ UNCHANGED prompts
    /\ UNCHANGED <<config, banks, loan_type, amount_entry, loan_amount,
                   loan_term, credit_score, idx, has_qualifying_banks, table,
                   notice, custom_rate, message, call>>

\* The custom row is computed and added, the table printed, Ok returned.
AddCustom(rate, row) ==
    /\ message' = ""
    /\ custom_rate' = rate
    /\ IF RowPanics(row)
       THEN /\ Exit(101, "panic")
            /\ UNCHANGED <<table, printed>>
       ELSE /\ table' = Append(table, row)
            /\ printed' = TRUE
            /\ Exit(0, "none")

\* The custom rate is entered: a rejected entry shows its message and the
\* prompt stays; an accepted one gives the custom row.
EnterCustomRate ==
    /\ pc = "custom_rate"
    /\ \E input \in CustomRateEntries :
           IF validate_custom_rate(input) # ""
           THEN /\ message' = validate_custom_rate(input)
                /\ UNCHANGED <<pc, custom_rate, table, printed, exit_code, failure>>
           ELSE AddCustom(FromF64(input),
                          CustomRow(FromF64(input), loan_amount, loan_term))
    /\ UNCHANGED <<config, banks, loan_type, amount_entry, loan_amount,
                   loan_term, credit_score, idx, has_qualifying_banks, notice,
                   prompts, call>>

Next ==
    \/ LoadConfig
    \/ PromptIoError
    \/ SelectLoanType
    \/ EnterAmount
    \/ EnterTerm
    \/ EnterScore
    \/ LoopBank
    \/ LoopEnd
    \/ ChooseCustom
    \/ EnterCustomRate

Spec == Init /\ [][Next]_vars

(* ------------------- the pure functions on their own ------------------- *)

NoConfig == [status |-> "missing", banks |-> <<>>]

\* main does not run while a function is checked on its own.
NotRunning ==
    /\ pc = "idle"
    /\ config = NoConfig
    /\ Idle

MainVars ==
    <<pc, config, banks, loan_type, amount_entry, loan_amount, loan_term,
      credit_score, idx, has_qualifying_banks, table, notice, custom_rate,
      message, prompts, printed, exit_code, failure>>

\* Base rates (in units: 600 is 6.00) and u16 credit scores.
BaseRateSamples == {-100, 0, 20, 50, 600, 1200, 40000}

ScoreSamples ==
    {0, 299, 300, 599, 600, 649, 650, 699, 700, 749, 750, 799, 800, 850, 65535}

InitAdjust ==
    /\ NotRunning
    /\ call \in {[fn |-> "adjust_rate_for_credit", base_rate |-> r,
                  credit_score |-> s, returned |-> FALSE, out |-> 0] :
                 r \in BaseRateSamples, s \in ScoreSamples}

\* adjust_rate_for_credit is called and returns.
CallAdjust ==
    /\ call.fn = "adjust_rate_for_credit"
    /\ ~call.returned
    /\ call' = [call EXCEPT !.returned = TRUE,
                            !.out = adjust_rate_for_credit(call.base_rate,
                                                           call.credit_score)]
    /\ UNCHANGED MainVars

NextAdjust == CallAdjust

SpecAdjust == InitAdjust /\ [][NextAdjust]_vars

\* Principals (1 is the smallest positive Decimal), annual rates, years.
PrincipalSamples == {1, 50, 100000, 10000000}

AnnualRateSamples == {0, 1, 600, 1200, 2400, 4800, 40000}

YearSamples == {1, 2, 5, 15, 30}

InitPay ==
    /\ NotRunning
    /\ call \in {[fn |-> "calculate_monthly_payment", principal |-> p,
                  annual_rate |-> r, years |-> t, returned |-> FALSE, out |-> 0] :
                 p \in PrincipalSamples, r \in AnnualRateSamples, t \in YearSamples}

\* calculate_monthly_payment is called and returns, or panics (out = NaD).
CallPay ==
    /\ call.fn = "calculate_monthly_payment"
    /\ ~call.returned
    /\ call' = [call EXCEPT !.returned = TRUE,
                            !.out = calculate_monthly_payment(call.principal,
                                        call.annual_rate, call.years)]
    /\ UNCHANGED MainVars

NextPay == CallPay

SpecPay == InitPay /\ [][NextPay]_vars

\* Bases (100 is 1, 4000000 is 40 000) and exponents.
BaseSamples == {-150, 0, 1, 50, 100, 101, 104, 150, 200, 1000, 4000000}

ExpSamples == {0, 1, 2, 3, 5, 12, 24, 360}

InitPow ==
    /\ NotRunning
    /\ call \in {[fn |-> "decimal_pow", base |-> b, exp |-> n,
                  st |-> <<One, b, n>>, at |-> "loop", out |-> 0] :
                 b \in BaseSamples, n \in ExpSamples}

\* One turn of the while loop (exp > 0); a multiplication may panic.
PowTurn ==
    /\ call.fn = "decimal_pow"
    /\ call.at = "loop"
    /\ call.st[3] > 0
    /\ call' = [call EXCEPT !.st = pow_turn(call.st),
                            !.at = IF NaD \in {pow_turn(call.st)[1], pow_turn(call.st)[2]}
                                   THEN "panicked" ELSE "loop"]
    /\ UNCHANGED MainVars

\* exp == 0: the loop exits and result is returned.
PowReturn ==
    /\ call.fn = "decimal_pow"
    /\ call.at = "loop"
    /\ call.st[3] = 0
    /\ call' = [call EXCEPT !.at = "returned", !.out = call.st[1]]
    /\ UNCHANGED MainVars

NextPow == PowTurn \/ PowReturn

SpecPow == InitPow /\ [][NextPow]_vars

(* ------------------------------- claims ------------------------------- *)

\* The custom row was added (main returned Ok after the custom-rate prompt).
CustomAdded == pc = "exit" /\ exit_code = 0 /\ "custom_rate" \in prompts

\* The rows the loop added: the table without the custom row.
LenderRows == IF CustomAdded THEN SubSeq(table, 1, Len(table) - 1) ELSE table

\* The for loop ran to its end.
LoopDone == "custom_choice" \in prompts

\* The banks the loop has been through.
Processed == SubSeq(banks, 1, IF idx = 0 THEN 0 ELSE idx - 1)

MeetsMinimum(b) == b.min_credit_score <= credit_score

QualifyingOf(bs) == SelectSeq(bs, MeetsMinimum)

\* C1: the rows the loop adds are exactly the banks whose min_credit_score
\* <= credit_score, one row each, in the order of the configured list; once
\* the loop is over every bank has been through it.
C1_LenderRows ==
    /\ Len(LenderRows) = Len(QualifyingOf(Processed))
    /\ \A i \in 1..Len(LenderRows) :
           /\ LenderRows[i].label = QualifyingOf(Processed)[i].name
           /\ LenderRows[i].rate =
                  adjust_rate_for_credit(
                      base_rate_of(QualifyingOf(Processed)[i], loan_type),
                      credit_score)
    /\ LoopDone => idx = Len(banks) + 1

\* Two banks, the first skipped and the second given its row.
C1_Witness ==
    /\ LoopDone
    /\ Len(banks) = 2
    /\ ~MeetsMinimum(banks[1])
    /\ Len(LenderRows) = 1
    /\ LenderRows[1].label = banks[2].name

\* C2: the notice is printed iff credit_score is below every bank's
\* min_credit_score (never before the loop is over), and the minimum it
\* reports is the smallest min_credit_score, or 300 for an empty list.
C2_Notice ==
    /\ ~LoopDone => ~notice.shown
    /\ LoopDone =>
           (notice.shown <=>
                \A i \in 1..Len(banks) : credit_score < banks[i].min_credit_score)
    /\ notice.shown =>
           /\ notice.score = credit_score
           /\ IF banks = <<>> THEN notice.min = 300
              ELSE /\ \E i \in 1..Len(banks) : banks[i].min_credit_score = notice.min
                   /\ \A i \in 1..Len(banks) : banks[i].min_credit_score >= notice.min

\* The notice for two banks of which the second has the smaller minimum.
C2_Witness ==
    /\ notice.shown
    /\ Len(banks) = 2
    /\ banks[1].min_credit_score > banks[2].min_credit_score

\* C3: the notice of a run with banks configured and none qualifying is never
\* the notice a run with no banks configured prints, whatever valid credit
\* score that run is given.
C3_Distinct ==
    (notice.shown /\ banks # <<>>) =>
        \A s \in ScoreEntries :
            validate_credit_score(s) = "" => NoticeOf(<<>>, s) # notice

\* Banks are configured and none qualified.
C3_Witness == notice.shown /\ banks # <<>> /\ table = <<>>

\* C4: adjust_rate_for_credit(r, s) is r-0.5 for s >= 800, r-0.25 for
\* 750..799, r for 700..749, r+0.5 for 650..699, r+1.0 for 600..649 and
\* r+2.0 below 600; for a fixed r it never increases with s.
C4_Bands ==
    (call.fn = "adjust_rate_for_credit" /\ call.returned) =>
        /\ call.credit_score >= 800 => call.out = call.base_rate - One \div 2
        /\ (750 <= call.credit_score /\ call.credit_score <= 799) =>
               call.out = call.base_rate - One \div 4
        /\ (700 <= call.credit_score /\ call.credit_score <= 749) =>
               call.out = call.base_rate
        /\ (650 <= call.credit_score /\ call.credit_score <= 699) =>
               call.out = call.base_rate + One \div 2
        /\ (600 <= call.credit_score /\ call.credit_score <= 649) =>
               call.out = call.base_rate + One
        /\ call.credit_score < 600 => call.out = call.base_rate + 2 * One
        /\ \A s \in ScoreSamples :
               s >= call.credit_score =>
                   adjust_rate_for_credit(call.base_rate, s) <= call.out

\* The call at the 700 boundary returned the base rate.
C4_Witness ==
    /\ call.fn = "adjust_rate_for_credit"
    /\ call.returned
    /\ call.credit_score = 700
    /\ call.out = call.base_rate

\* C5: for P > 0, R >= 0 and T in 1..30 calculate_monthly_payment returns a
\* payment > 0, and for R = 0 exactly P/(12*T).
C5_PositivePayment ==
    (/\ call.fn = "calculate_monthly_payment"
     /\ call.returned
     /\ call.principal > 0
     /\ call.annual_rate >= 0
     /\ call.years \in 1..30) =>
        /\ call.out # NaD
        /\ call.out > 0
        /\ call.annual_rate = 0 =>
               call.out = DecDiv(call.principal, DecFromInt(12 * call.years))

\* acc * b * ... * b (n factors b), one Decimal multiplication after the
\* other; sixteen at a time to keep the evaluation shallow.
Times4(acc, b) == DecMul(DecMul(DecMul(DecMul(acc, b), b), b), b)

Times16(acc, b) == Times4(Times4(Times4(Times4(acc, b), b), b), b)

RECURSIVE TimesN(_, _, _)
TimesN(acc, b, n) ==
    IF n = 0 THEN acc
    ELSE IF n >= 16 THEN TimesN(Times16(acc, b), b, n - 16)
    ELSE TimesN(DecMul(acc, b), b, n - 1)

\* C6: decimal_pow's loop ends by returning (never by a panic), and what it
\* returns for (b, n) is b multiplied by itself n times: 1 for n = 0, b for
\* n = 1, 1 for b = 1.
C6_Power ==
    call.fn = "decimal_pow" =>
        /\ call.at # "panicked"
        /\ call.at = "returned" =>
               /\ call.out = TimesN(One, call.base, call.exp)
               /\ call.exp = 0 => call.out = One
               /\ call.exp = 1 => call.out = call.base
               /\ call.base = One => call.out = One

C8_FailureOnlyOnConfigOrIo ==
    /\ (pc = "exit" /\ exit_code # 0) => failure \in {"config", "io"}
    /\ failure = "config" => (prompts = {} /\ table = <<>>)
    /\ (pc = "exit" /\ notice.shown /\ failure # "io") =>
           (exit_code = 0 /\ printed)

\* C9: with a custom rate exactly one row follows the banks' rows; its rate
\* is the rate entered, its payment calculate_monthly_payment of it, and its
\* label is the label of no bank's row.
C9_CustomRow ==
    CustomAdded =>
        /\ Len(table) = Len(QualifyingOf(banks)) + 1
        /\ table[Len(table)].rate = custom_rate
        /\ table[Len(table)].monthly_payment =
               calculate_monthly_payment(loan_amount, custom_rate, loan_term)
        /\ \A i \in 1..(Len(table) - 1) :
               table[i].label # table[Len(table)].label

\* C10: an amount the prompt let through is > 0 and <= the loan type's
\* maximum, before and after its conversion; the term is in 1..30 and the
\* credit score in 300..850 once entered.
C10_Validated ==
    /\ amount_entry # F64(0, 1) =>
           /\ F64GtZero(amount_entry)
           /\ ~F64Gt(amount_entry, get_max_amount(loan_type))
    /\ "term" \in prompts =>
           /\ loan_amount > 0
           /\ loan_amount <= get_max_amount(loan_type) * One
    /\ "score" \in prompts => loan_term \in 1..30
    /\ (pc = "loop" \/ LoopDone) => credit_score \in 300..850

====
